---- MODULE Spec2Model ----
(***************************************************************************)
(* Model of JournalModel (news_recommender/models/journal_model.py) and of *)
(* the article catalog callback update_read_count (article_model.py).      *)
(*                                                                         *)
(* An Article is identified by its id: the dataclass compares by fields,   *)
(* and the journal never holds two articles with the same id, so list      *)
(* operations by value (remove, index) act on ids.                         *)
(***************************************************************************)
EXTENDS Integers, Sequences, FiniteSets, TLC

\* Bound of the model: article ids are 1..MaxId.
MaxId == 3

Ids == 1..MaxId

\* Integer arguments a caller may pass for an id or an article number.
IntArgs == (0 - 1)..(MaxId + 1)

\* Arguments as Python values: an int, or a str that int() cannot parse.
Args == {[tag |-> "int", n |-> k] : k \in IntArgs} \cup {[tag |-> "text", n |-> 0]}

\* Arguments of add_article_to_journal: an Article (its __post_init__ has
\* accepted the id, so id > 0) or some other object.
ArticleArgs == {[tag |-> "article", id |-> i] : i \in Ids} \cup {[tag |-> "other", id |-> 0]}

VARIABLES
    journal,                  \* self.journal, as the sequence of article ids
    current_article_number,   \* self.current_article_number
    articles,                 \* the articles table: id -> row; read_count is counted
                              \* from its value when the last call began
    lastOp,                   \* the operation that ran last
    lastErr,                  \* "none", or the error it raised
    result,                   \* what it returned
    calls,                    \* ids update_read_count was invoked with, in order
    streak,                   \* ids read by the current run of consecutive read_current_article calls
    streakStart,              \* current_article_number when that run began (0: no run)
    retry,                    \* what the first of a run of failed read_current_article calls found
    addLog,                   \* ids added since the journal was last empty, or Tainted
    added                     \* ids passed to a successful add and to no successful removal since

vars == <<journal, current_article_number, articles, lastOp, lastErr, result,
          calls, streak, streakStart, retry, addLog, added>>

\* Values an operation returns: nothing, None, one article, or the list.
NoResult == [kind |-> "none", ids |-> <<>>]
None == [kind |-> "None", ids |-> <<>>]
IdValue(n) == [kind |-> "id", ids |-> <<n>>]
OneArticle(id) == [kind |-> "article", ids |-> <<id>>]
ArticleList(j) == [kind |-> "list", ids |-> j]
Tainted == <<0>>
NoRetry == [id |-> 0, cur |-> 0, journal |-> <<>>]

----------------------------------------------------------------------------
\* Python list operations (0-indexed positions i).

RECURSIVE ListRemove(_, _)
\* list.remove(x): drops the first element equal to x.
ListRemove(s, x) ==
    IF s = <<>> THEN <<>>
    ELSE IF Head(s) = x THEN Tail(s)
    ELSE <<Head(s)>> \o ListRemove(Tail(s), x)

\* list.insert(i, x), i >= 0: x lands at index i, or at the end when i > len.
ListInsert(s, i, x) ==
    LET k == IF i > Len(s) THEN Len(s) ELSE i
    IN  SubSeq(s, 1, k) \o <<x>> \o SubSeq(s, k + 1, Len(s))

\* del list[i]
ListDel(s, i) == SubSeq(s, 1, i) \o SubSeq(s, i + 2, Len(s))

\* list.index(x): 0-indexed position of the first x.
ListIndex(s, x) == (CHOOSE k \in 1..Len(s) : s[k] = x /\ \A j \in 1..(k - 1) : s[j] # x) - 1

\* [a for a in s if a != x]
RECURSIVE ListFilterNe(_, _)
ListFilterNe(s, x) ==
    IF s = <<>> THEN <<>>
    ELSE IF Head(s) = x THEN ListFilterNe(Tail(s), x)
    ELSE <<Head(s)>> \o ListFilterNe(Tail(s), x)

JournalIds(s) == {s[k] : k \in 1..Len(s)}

\* int(x): ok with the value, or ValueError.
int(x) == IF x.tag = "int" THEN [ok |-> TRUE, n |-> x.n] ELSE [ok |-> FALSE, n |-> 0]

----------------------------------------------------------------------------
\* The articles table.

NoRow == [exists |-> FALSE, deleted |-> FALSE, read_count |-> 0]
NewRow == [exists |-> TRUE, deleted |-> FALSE, read_count |-> 0]

\* The table once every article the journal may hold has been created.
SeededCatalog == [i \in Ids |-> NewRow]

\* No function reads read_count (update_read_count selects only the deleted
\* flag), so the table keeps each counter relative to its value at the start
\* of the call under way: Rebase(t) is the table t as the next call finds it.
Rebase(t) == [i \in Ids |-> [t[i] EXCEPT !.read_count = 0]]

\* update_read_count(article_id) on table t; db = TRUE when sqlite3 raises.
\* Mutant: the deleted flag is not looked at.
update_read_count_ignores_deleted(t, article_id, db) ==
    IF db THEN [err |-> "DatabaseError", articles |-> t]
    ELSE IF ~t[article_id].exists THEN [err |-> "ArticleNotFound", articles |-> t]
    ELSE [err |-> "none",
          articles |-> [t EXCEPT ![article_id].read_count = @ + 1]]

update_read_count(t, article_id, db) ==
    IF db THEN [err |-> "DatabaseError", articles |-> t]
    ELSE IF ~t[article_id].exists THEN [err |-> "ArticleNotFound", articles |-> t]
    ELSE IF t[article_id].deleted THEN [err |-> "ArticleDeleted", articles |-> t]
    ELSE [err |-> "none",
          articles |-> [t EXCEPT ![article_id].read_count = @ + 1]]

CallbackErrors == {"DatabaseError", "ArticleNotFound", "ArticleDeleted"}

----------------------------------------------------------------------------
\* Utility functions of JournalModel, on a journal j.

\* Mutant: the test is "self.journal is None", which an empty list passes.
check_if_empty_tests_none(j) == "none"

check_if_empty(j) == IF j = <<>> THEN "EmptyJournal" ELSE "none"

\* Mutant: the id 0 is rejected like a negative id, <= for <.
validate_id_rejects_zero(j, article_id, check_in_journal) ==
    LET p == int(article_id)
    IN  IF ~p.ok THEN [err |-> "InvalidId", id |-> 0]
        ELSE IF p.n <= 0 THEN [err |-> "InvalidId", id |-> 0]
        ELSE IF check_in_journal /\ p.n \notin JournalIds(j)
             THEN [err |-> "NotFound", id |-> 0]
        ELSE [err |-> "none", id |-> p.n]

validate_article_id(j, article_id, check_in_journal) ==
    LET p == int(article_id)
    IN  IF ~p.ok THEN [err |-> "InvalidId", id |-> 0]
        ELSE IF p.n < 0 THEN [err |-> "InvalidId", id |-> 0]
        ELSE IF check_in_journal /\ p.n \notin JournalIds(j)
             THEN [err |-> "NotFound", id |-> 0]
        ELSE [err |-> "none", id |-> p.n]

\* Mutant: the last position is rejected, >= for >.
validate_number_rejects_last(j, article_number) ==
    LET p == int(article_number)
    IN  IF ~p.ok THEN [err |-> "InvalidPosition", n |-> 0]
        ELSE IF p.n < 1 \/ p.n >= Len(j) THEN [err |-> "InvalidPosition", n |-> 0]
        ELSE [err |-> "none", n |-> p.n]

validate_article_number(j, article_number) ==
    LET p == int(article_number)
    IN  IF ~p.ok THEN [err |-> "InvalidPosition", n |-> 0]
        ELSE IF p.n < 1 \/ p.n > Len(j) THEN [err |-> "InvalidPosition", n |-> 0]
        ELSE [err |-> "none", n |-> p.n]

ValidationErrors ==
    {"EmptyJournal", "InvalidId", "InvalidPosition", "NotFound", "DuplicateId",
     "SelfSwap", "InvalidArgument"}

----------------------------------------------------------------------------
\* Article management functions. Each returns the error raised ("none" when
\* the call returns normally) and the journal it leaves.

\* Mutant: the duplicate check is missing.
add_without_duplicate_check(j, article) ==
    IF article.tag # "article" THEN [err |-> "InvalidArgument", journal |-> j]
    ELSE LET v == validate_article_id(j, [tag |-> "int", n |-> article.id], FALSE)
         IN  IF v.err # "none" THEN [err |-> v.err, journal |-> j]
             ELSE [err |-> "none", journal |-> Append(j, article.id)]

\* Mutant: insert(0, article) instead of append(article).
add_at_front(j, article) ==
    IF article.tag # "article" THEN [err |-> "InvalidArgument", journal |-> j]
    ELSE LET v == validate_article_id(j, [tag |-> "int", n |-> article.id], FALSE)
         IN  IF v.err # "none" THEN [err |-> v.err, journal |-> j]
             ELSE IF v.id \in JournalIds(j) THEN [err |-> "DuplicateId", journal |-> j]
             ELSE [err |-> "none", journal |-> <<article.id>> \o j]

\* Mutant: the duplicate check looks at the last article only.
add_checks_last_only(j, article) ==
    IF article.tag # "article" THEN [err |-> "InvalidArgument", journal |-> j]
    ELSE LET v == validate_article_id(j, [tag |-> "int", n |-> article.id], FALSE)
         IN  IF v.err # "none" THEN [err |-> v.err, journal |-> j]
             ELSE IF j # <<>> /\ v.id = j[Len(j)] THEN [err |-> "DuplicateId", journal |-> j]
             ELSE [err |-> "none", journal |-> Append(j, article.id)]

add_article_to_journal(j, article) ==
    IF article.tag # "article" THEN [err |-> "InvalidArgument", journal |-> j]
    ELSE LET v == validate_article_id(j, [tag |-> "int", n |-> article.id], FALSE)
         IN  IF v.err # "none" THEN [err |-> v.err, journal |-> j]
             ELSE IF v.id \in JournalIds(j) THEN [err |-> "DuplicateId", journal |-> j]
             ELSE [err |-> "none", journal |-> Append(j, article.id)]

\* Mutant: the comprehension keeps the matching article, == for !=.
remove_by_id_keeps_match(j, article_id) ==
    IF check_if_empty(j) # "none" THEN [err |-> "EmptyJournal", journal |-> j]
    ELSE LET v == validate_article_id(j, article_id, TRUE)
         IN  IF v.err # "none" THEN [err |-> v.err, journal |-> j]
             ELSE [err |-> "none", journal |-> SelectSeq(j, LAMBDA x : x = v.id)]

remove_article_by_article_id(j, article_id) ==
    IF check_if_empty(j) # "none" THEN [err |-> "EmptyJournal", journal |-> j]
    ELSE LET v == validate_article_id(j, article_id, TRUE)
         IN  IF v.err # "none" THEN [err |-> v.err, journal |-> j]
             ELSE [err |-> "none", journal |-> ListFilterNe(j, v.id)]

\* Mutant: the index is the article number, without the - 1; past the end
\* nothing is deleted.
remove_by_number_off_by_one(j, article_number) ==
    IF check_if_empty(j) # "none" THEN [err |-> "EmptyJournal", journal |-> j]
    ELSE LET v == validate_article_number(j, article_number)
         IN  IF v.err # "none" THEN [err |-> v.err, journal |-> j]
             ELSE [err |-> "none", journal |-> ListDel(j, v.n)]

remove_article_by_article_number(j, article_number) ==
    IF check_if_empty(j) # "none" THEN [err |-> "EmptyJournal", journal |-> j]
    ELSE LET v == validate_article_number(j, article_number)
         IN  IF v.err # "none" THEN [err |-> v.err, journal |-> j]
             ELSE [err |-> "none", journal |-> ListDel(j, v.n - 1)]

\* Mutant: clear_journal starts with check_if_empty like the other calls.
clear_checks_if_empty(j) ==
    IF check_if_empty(j) # "none" THEN [err |-> "EmptyJournal", journal |-> j]
    ELSE [err |-> "none", journal |-> <<>>]

clear_journal(j) == [err |-> "none", journal |-> <<>>]

----------------------------------------------------------------------------
\* Journal retrieval functions: the error raised and the value returned.

get_all_articles(j) ==
    IF check_if_empty(j) # "none" THEN [err |-> "EmptyJournal", val |-> NoResult]
    ELSE [err |-> "none", val |-> ArticleList(j)]

\* Mutant: the id is validated without the check that it is in the journal.
get_by_id_without_existence_check(j, article_id) ==
    IF check_if_empty(j) # "none" THEN [err |-> "EmptyJournal", val |-> NoResult]
    ELSE LET v == validate_article_id(j, article_id, FALSE)
         IN  IF v.err # "none" THEN [err |-> v.err, val |-> NoResult]
             ELSE IF \E k \in 1..Len(j) : j[k] = v.id
                  THEN [err |-> "none", val |-> OneArticle(v.id)]
                  ELSE [err |-> "none", val |-> None]

get_article_by_article_id(j, article_id) ==
    IF check_if_empty(j) # "none" THEN [err |-> "EmptyJournal", val |-> NoResult]
    ELSE LET v == validate_article_id(j, article_id, TRUE)
         IN  IF v.err # "none" THEN [err |-> v.err, val |-> NoResult]
             ELSE IF \E k \in 1..Len(j) : j[k] = v.id
                  THEN [err |-> "none", val |-> OneArticle(v.id)]
                  ELSE [err |-> "none", val |-> None]

get_article_by_article_number(j, article_number) ==
    IF check_if_empty(j) # "none" THEN [err |-> "EmptyJournal", val |-> NoResult]
    ELSE LET v == validate_article_number(j, article_number)
         IN  IF v.err # "none" THEN [err |-> v.err, val |-> NoResult]
             ELSE [err |-> "none", val |-> OneArticle(j[v.n])]

get_current_article(j, cur) ==
    IF check_if_empty(j) # "none" THEN [err |-> "EmptyJournal", val |-> NoResult]
    ELSE get_article_by_article_number(j, [tag |-> "int", n |-> cur])

get_journal_length(j) == Len(j)

----------------------------------------------------------------------------
\* Journal movement functions.

\* Mutant: the cursor is stored as a list index, article_number - 1.
go_to_stores_index(j, cur, article_number) ==
    IF check_if_empty(j) # "none" THEN [err |-> "EmptyJournal", cur |-> cur]
    ELSE LET v == validate_article_number(j, article_number)
         IN  IF v.err # "none" THEN [err |-> v.err, cur |-> cur]
             ELSE [err |-> "none", cur |-> v.n - 1]

go_to_article_number(j, cur, article_number) ==
    IF check_if_empty(j) # "none" THEN [err |-> "EmptyJournal", cur |-> cur]
    ELSE LET v == validate_article_number(j, article_number)
         IN  IF v.err # "none" THEN [err |-> v.err, cur |-> cur]
             ELSE [err |-> "none", cur |-> v.n]

\* Mutant: the article is reinserted at index 1 instead of index 0.
move_to_beginning_index_one(j, article_id) ==
    IF check_if_empty(j) # "none" THEN [err |-> "EmptyJournal", journal |-> j]
    ELSE LET v == validate_article_id(j, article_id, TRUE)
         IN  IF v.err # "none" THEN [err |-> v.err, journal |-> j]
             ELSE [err |-> "none", journal |-> ListInsert(ListRemove(j, v.id), 1, v.id)]

move_article_to_beginning(j, article_id) ==
    IF check_if_empty(j) # "none" THEN [err |-> "EmptyJournal", journal |-> j]
    ELSE LET v == validate_article_id(j, article_id, TRUE)
         IN  IF v.err # "none" THEN [err |-> v.err, journal |-> j]
             ELSE LET article == get_article_by_article_id(j, [tag |-> "int", n |-> v.id]).val.ids[1]
                  IN  [err |-> "none",
                       journal |-> ListInsert(ListRemove(j, article), 0, article)]

\* Mutant: the article is reinserted before the last remaining article
\* instead of appended.
move_to_end_before_last(j, article_id) ==
    IF check_if_empty(j) # "none" THEN [err |-> "EmptyJournal", journal |-> j]
    ELSE LET v == validate_article_id(j, article_id, TRUE)
         IN  IF v.err # "none" THEN [err |-> v.err, journal |-> j]
             ELSE LET rest == ListRemove(j, v.id)
                  IN  [err |-> "none",
                       journal |-> IF rest = <<>> THEN <<v.id>>
                                   ELSE ListInsert(rest, Len(rest) - 1, v.id)]

move_article_to_end(j, article_id) ==
    IF check_if_empty(j) # "none" THEN [err |-> "EmptyJournal", journal |-> j]
    ELSE LET v == validate_article_id(j, article_id, TRUE)
         IN  IF v.err # "none" THEN [err |-> v.err, journal |-> j]
             ELSE LET article == get_article_by_article_id(j, [tag |-> "int", n |-> v.id]).val.ids[1]
                  IN  [err |-> "none", journal |-> Append(ListRemove(j, article), article)]

\* Mutant: the article is inserted at index article_number, without the - 1.
move_to_number_off_by_one(j, article_id, article_number) ==
    IF check_if_empty(j) # "none" THEN [err |-> "EmptyJournal", journal |-> j]
    ELSE LET v == validate_article_id(j, article_id, TRUE)
         IN  IF v.err # "none" THEN [err |-> v.err, journal |-> j]
             ELSE LET w == validate_article_number(j, article_number)
                  IN  IF w.err # "none" THEN [err |-> w.err, journal |-> j]
                      ELSE [err |-> "none",
                            journal |-> ListInsert(ListRemove(j, v.id), w.n, v.id)]

\* Mutant: the article is taken out before the article number is validated.
move_removes_before_validating(j, article_id, article_number) ==
    IF check_if_empty(j) # "none" THEN [err |-> "EmptyJournal", journal |-> j]
    ELSE LET v == validate_article_id(j, article_id, TRUE)
         IN  IF v.err # "none" THEN [err |-> v.err, journal |-> j]
             ELSE LET removed == ListRemove(j, v.id)
                      w == validate_article_number(j, article_number)
                  IN  IF w.err # "none" THEN [err |-> w.err, journal |-> removed]
                      ELSE [err |-> "none", journal |-> ListInsert(removed, w.n - 1, v.id)]

move_article_to_article_number(j, article_id, article_number) ==
    IF check_if_empty(j) # "none" THEN [err |-> "EmptyJournal", journal |-> j]
    ELSE LET v == validate_article_id(j, article_id, TRUE)
         IN  IF v.err # "none" THEN [err |-> v.err, journal |-> j]
             ELSE LET w == validate_article_number(j, article_number)
                  IN  IF w.err # "none" THEN [err |-> w.err, journal |-> j]
                      ELSE LET journal_index == w.n - 1
                               article == get_article_by_article_id(j, [tag |-> "int", n |-> v.id]).val.ids[1]
                           IN  [err |-> "none",
                                journal |-> ListInsert(ListRemove(j, article), journal_index, article)]

\* Mutant: the two slots are assigned one after the other, so the second
\* assignment reads the slot the first one has overwritten.
swap_sequential_assignment(j, article1_id, article2_id) ==
    IF check_if_empty(j) # "none" THEN [err |-> "EmptyJournal", journal |-> j]
    ELSE LET v1 == validate_article_id(j, article1_id, TRUE)
         IN  IF v1.err # "none" THEN [err |-> v1.err, journal |-> j]
             ELSE LET v2 == validate_article_id(j, article2_id, TRUE)
                  IN  IF v2.err # "none" THEN [err |-> v2.err, journal |-> j]
                      ELSE IF v1.id = v2.id THEN [err |-> "SelfSwap", journal |-> j]
                      ELSE LET index1 == ListIndex(j, v1.id)
                               index2 == ListIndex(j, v2.id)
                           IN  [err |-> "none",
                                journal |-> [j EXCEPT ![index1 + 1] = j[index2 + 1]]]

\* Mutant: the first article is taken out and reinserted at the index of the
\* second, instead of the two slots being exchanged.
swap_by_move(j, article1_id, article2_id) ==
    IF check_if_empty(j) # "none" THEN [err |-> "EmptyJournal", journal |-> j]
    ELSE LET v1 == validate_article_id(j, article1_id, TRUE)
         IN  IF v1.err # "none" THEN [err |-> v1.err, journal |-> j]
             ELSE LET v2 == validate_article_id(j, article2_id, TRUE)
                  IN  IF v2.err # "none" THEN [err |-> v2.err, journal |-> j]
                      ELSE IF v1.id = v2.id THEN [err |-> "SelfSwap", journal |-> j]
                      ELSE [err |-> "none",
                            journal |-> ListInsert(ListRemove(j, v1.id),
                                                   ListIndex(j, v2.id), v1.id)]

\* Mutant: the two arguments are compared before they are validated.
swap_self_check_first(j, article1_id, article2_id) ==
    IF check_if_empty(j) # "none" THEN [err |-> "EmptyJournal", journal |-> j]
    ELSE IF article1_id = article2_id THEN [err |-> "SelfSwap", journal |-> j]
    ELSE LET v1 == validate_article_id(j, article1_id, TRUE)
         IN  IF v1.err # "none" THEN [err |-> v1.err, journal |-> j]
             ELSE LET v2 == validate_article_id(j, article2_id, TRUE)
                  IN  IF v2.err # "none" THEN [err |-> v2.err, journal |-> j]
                      ELSE LET index1 == ListIndex(j, v1.id)
                               index2 == ListIndex(j, v2.id)
                           IN  [err |-> "none",
                                journal |-> [j EXCEPT ![index1 + 1] = j[index2 + 1],
                                                      ![index2 + 1] = j[index1 + 1]]]

swap_articles_in_journal(j, article1_id, article2_id) ==
    IF check_if_empty(j) # "none" THEN [err |-> "EmptyJournal", journal |-> j]
    ELSE LET v1 == validate_article_id(j, article1_id, TRUE)
         IN  IF v1.err # "none" THEN [err |-> v1.err, journal |-> j]
             ELSE LET v2 == validate_article_id(j, article2_id, TRUE)
                  IN  IF v2.err # "none" THEN [err |-> v2.err, journal |-> j]
                      ELSE IF v1.id = v2.id THEN [err |-> "SelfSwap", journal |-> j]
                      ELSE LET index1 == ListIndex(j, v1.id)
                               index2 == ListIndex(j, v2.id)
                           IN  [err |-> "none",
                                journal |-> [j EXCEPT ![index1 + 1] = j[index2 + 1],
                                                      ![index2 + 1] = j[index1 + 1]]]

----------------------------------------------------------------------------
\* Journal readback functions. db is the number of the update_read_count
\* invocation, counted within the call, at which sqlite3 raises (0: never).
\* Each returns the error raised, the cursor and the table it leaves, and the
\* ids update_read_count was invoked with.

\* Mutant: the cursor advances without wrapping.
read_current_no_wrap(j, cur, t, db) ==
    IF check_if_empty(j) # "none"
    THEN [err |-> "EmptyJournal", cur |-> cur, articles |-> t, calls |-> <<>>]
    ELSE LET g == get_article_by_article_number(j, [tag |-> "int", n |-> cur])
         IN  IF g.err # "none"
             THEN [err |-> g.err, cur |-> cur, articles |-> t, calls |-> <<>>]
             ELSE LET u == update_read_count(t, g.val.ids[1], db = 1)
                  IN  IF u.err # "none"
                      THEN [err |-> u.err, cur |-> cur, articles |-> t, calls |-> g.val.ids]
                      ELSE [err |-> "none", cur |-> cur + 1, articles |-> u.articles,
                            calls |-> g.val.ids]

\* Mutant: the cursor wraps 0-based, (cursor + 1) % length.
read_current_wrap_zero(j, cur, t, db) ==
    IF check_if_empty(j) # "none"
    THEN [err |-> "EmptyJournal", cur |-> cur, articles |-> t, calls |-> <<>>]
    ELSE LET g == get_article_by_article_number(j, [tag |-> "int", n |-> cur])
         IN  IF g.err # "none"
             THEN [err |-> g.err, cur |-> cur, articles |-> t, calls |-> <<>>]
             ELSE LET u == update_read_count(t, g.val.ids[1], db = 1)
                  IN  IF u.err # "none"
                      THEN [err |-> u.err, cur |-> cur, articles |-> t, calls |-> g.val.ids]
                      ELSE [err |-> "none", cur |-> (cur + 1) % get_journal_length(j),
                            articles |-> u.articles, calls |-> g.val.ids]

\* Mutant: the cursor advances before update_read_count is called.
read_current_advance_first(j, cur, t, db) ==
    IF check_if_empty(j) # "none"
    THEN [err |-> "EmptyJournal", cur |-> cur, articles |-> t, calls |-> <<>>]
    ELSE LET g == get_article_by_article_number(j, [tag |-> "int", n |-> cur])
         IN  IF g.err # "none"
             THEN [err |-> g.err, cur |-> cur, articles |-> t, calls |-> <<>>]
             ELSE LET u == update_read_count(t, g.val.ids[1], db = 1)
                  IN  [err |-> u.err, cur |-> (cur % get_journal_length(j)) + 1,
                       articles |-> u.articles, calls |-> g.val.ids]

read_current_article(j, cur, t, db) ==
    IF check_if_empty(j) # "none"
    THEN [err |-> "EmptyJournal", cur |-> cur, articles |-> t, calls |-> <<>>]
    ELSE LET g == get_article_by_article_number(j, [tag |-> "int", n |-> cur])
         IN  IF g.err # "none"
             THEN [err |-> g.err, cur |-> cur, articles |-> t, calls |-> <<>>]
             ELSE LET current_article == g.val.ids[1]
                      u == update_read_count(t, current_article, db = 1)
                  IN  IF u.err # "none"
                      THEN [err |-> u.err, cur |-> cur, articles |-> t,
                            calls |-> <<current_article>>]
                      ELSE [err |-> "none",
                            cur |-> (cur % get_journal_length(j)) + 1,
                            articles |-> u.articles,
                            calls |-> <<current_article>>]

\* Mutant: the loop goes on after an exception and raises it at the end.
RECURSIVE ReadLoopKeepsGoing(_, _, _, _)
ReadLoopKeepsGoing(j, n, s, db) ==
    IF n <= 0 THEN s
    ELSE LET r == read_current_article(j, s.cur, s.articles, db - Len(s.calls))
         IN  ReadLoopKeepsGoing(j, n - 1,
                 [err |-> IF s.err # "none" THEN s.err ELSE r.err,
                  cur |-> r.cur, articles |-> r.articles,
                  calls |-> s.calls \o r.calls], db)

\* for _ in range(n): self.read_current_article(), from state s; an
\* exception leaves the loop.
RECURSIVE ReadLoop(_, _, _, _)
ReadLoop(j, n, s, db) ==
    IF n <= 0 \/ s.err # "none" THEN s
    ELSE LET r == read_current_article(j, s.cur, s.articles, db - Len(s.calls))
         IN  ReadLoop(j, n - 1,
                      [err |-> r.err, cur |-> r.cur, articles |-> r.articles,
                       calls |-> s.calls \o r.calls], db)

\* Mutant: the cursor is not reset to 1 before the loop.
read_entire_no_reset(j, cur, t, db) ==
    IF check_if_empty(j) # "none"
    THEN [err |-> "EmptyJournal", cur |-> cur, articles |-> t, calls |-> <<>>]
    ELSE ReadLoop(j, get_journal_length(j),
                  [err |-> "none", cur |-> cur, articles |-> t, calls |-> <<>>], db)

read_entire_journal(j, cur, t, db) ==
    IF check_if_empty(j) # "none"
    THEN [err |-> "EmptyJournal", cur |-> cur, articles |-> t, calls |-> <<>>]
    ELSE ReadLoop(j, get_journal_length(j),
                  [err |-> "none", cur |-> 1, articles |-> t, calls |-> <<>>], db)

read_rest_of_journal(j, cur, t, db) ==
    IF check_if_empty(j) # "none"
    THEN [err |-> "EmptyJournal", cur |-> cur, articles |-> t, calls |-> <<>>]
    ELSE ReadLoop(j, get_journal_length(j) - cur + 1,
                  [err |-> "none", cur |-> cur, articles |-> t, calls |-> <<>>], db)

\* Mutant: the cursor is validated as an article number before it is reset.
rewind_validates_cursor(j, cur) ==
    IF check_if_empty(j) # "none" THEN [err |-> "EmptyJournal", cur |-> cur]
    ELSE IF validate_article_number(j, [tag |-> "int", n |-> cur]).err # "none"
         THEN [err |-> "InvalidPosition", cur |-> cur]
    ELSE [err |-> "none", cur |-> 1]

rewind_journal(j, cur) ==
    IF check_if_empty(j) # "none" THEN [err |-> "EmptyJournal", cur |-> cur]
    ELSE [err |-> "none", cur |-> 1]

----------------------------------------------------------------------------
\* The catalog operations that change what update_read_count sees.

create_article(t, id) ==
    IF t[id].exists THEN [err |-> "ArticleExists", articles |-> t]
    ELSE [err |-> "none",
          articles |-> [t EXCEPT ![id] = NewRow]]

delete_article(t, article_id) ==
    IF ~t[article_id].exists THEN [err |-> "ArticleNotFound", articles |-> t]
    ELSE IF t[article_id].deleted THEN [err |-> "ArticleDeleted", articles |-> t]
    ELSE [err |-> "none", articles |-> [t EXCEPT ![article_id].deleted = TRUE]]

----------------------------------------------------------------------------
\* The state machine: one action per operation.

Init ==
    /\ journal = <<>>
    /\ current_article_number = 1
    /\ articles = SeededCatalog
    /\ lastOp = "init"
    /\ lastErr = "none"
    /\ result = NoResult
    /\ calls = <<>>
    /\ streak = <<>>
    /\ streakStart = 0
    /\ retry = NoRetry
    /\ addLog = <<>>
    /\ added = {}

\* What the caller observes of the call.
Outcome(op, err, res, cl) ==
    /\ lastOp' = op
    /\ lastErr' = err
    /\ result' = res
    /\ calls' = cl

\* Any call but read_current_article ends a run of read_current_article calls.
NoStreak == streak' = <<>> /\ streakStart' = 0 /\ retry' = NoRetry

\* addLog after a call that leaves journal j2 and did not add.
LogAfter(j2) ==
    addLog' = IF j2 = <<>> THEN <<>> ELSE IF j2 # journal THEN Tainted ELSE addLog

\* Mutant: a call that shortens the journal pulls the cursor back onto it.
JournalStepCorrectsCursor(op, r, gone) ==
    /\ journal' = r.journal
    /\ Outcome(op, r.err, NoResult, <<>>)
    /\ LogAfter(r.journal)
    /\ added' = IF r.err = "none" THEN added \ gone ELSE added
    /\ NoStreak
    /\ articles' = Rebase(articles)
    /\ current_article_number' =
           IF r.journal # <<>> /\ current_article_number > Len(r.journal)
           THEN Len(r.journal) ELSE current_article_number

\* A call that only changes the journal; gone holds the ids it was asked to
\* remove.
JournalStep(op, r, gone) ==
    /\ journal' = r.journal
    /\ Outcome(op, r.err, NoResult, <<>>)
    /\ LogAfter(r.journal)
    /\ added' = IF r.err = "none" THEN added \ gone ELSE added
    /\ NoStreak
    /\ articles' = Rebase(articles)
    /\ UNCHANGED current_article_number

\* A call that only returns a value.
QueryStep(op, r) ==
    /\ Outcome(op, r.err, r.val, <<>>)
    /\ NoStreak
    /\ articles' = Rebase(articles)
    /\ UNCHANGED <<journal, current_article_number, addLog, added>>

\* A call that only changes the cursor.
CursorStep(op, r) ==
    /\ current_article_number' = r.cur
    /\ Outcome(op, r.err, NoResult, <<>>)
    /\ NoStreak
    /\ articles' = Rebase(articles)
    /\ UNCHANGED <<journal, addLog, added>>

\* Mutant: an article that was read is taken off the front of the journal.
ReadStepConsumes(op, r) ==
    /\ current_article_number' = r.cur
    /\ articles' = r.articles
    /\ Outcome(op, r.err, NoResult, r.calls)
    /\ journal' = IF r.err = "none" /\ journal # <<>> THEN Tail(journal) ELSE journal
    /\ UNCHANGED <<addLog, added>>

\* A call that reads: the cursor and the table change.
ReadStep(op, r) ==
    /\ current_article_number' = r.cur
    /\ articles' = r.articles
    /\ Outcome(op, r.err, NoResult, r.calls)
    /\ UNCHANGED <<journal, addLog, added>>

\* A catalog call.
CatalogStep(op, r) ==
    /\ articles' = r.articles
    /\ Outcome(op, r.err, NoResult, <<>>)
    /\ NoStreak
    /\ UNCHANGED <<journal, current_article_number, addLog, added>>

\* The calls, by argument.

AddCall(article) ==
    LET r == add_article_to_journal(journal, article)
    IN  /\ journal' = r.journal
        /\ Outcome("add", r.err, NoResult, <<>>)
        /\ addLog' = IF r.err # "none" THEN addLog
                     ELSE IF addLog = Tainted THEN Tainted
                     ELSE Append(addLog, article.id)
        /\ added' = IF r.err = "none" THEN added \cup {article.id} ELSE added
        /\ NoStreak
        /\ articles' = Rebase(articles)
        /\ UNCHANGED current_article_number

RemoveByIdCall(a) ==
    JournalStep("removeById", remove_article_by_article_id(journal, a), {a.n})

RemoveByPositionCall(n) ==
    JournalStep("removeByPosition", remove_article_by_article_number(journal, n),
                IF n.tag = "int" /\ n.n \in 1..Len(journal) THEN {journal[n.n]} ELSE {})

GetByIdCall(a) == QueryStep("getById", get_article_by_article_id(journal, a))

MoveToFrontCall(a) == JournalStep("moveToFront", move_article_to_beginning(journal, a), {})

MoveToEndCall(a) == JournalStep("moveToEnd", move_article_to_end(journal, a), {})

MoveToPositionCall(a, n) ==
    JournalStep("moveToPosition", move_article_to_article_number(journal, a, n), {})

SwapCall(a, b) == JournalStep("swap", swap_articles_in_journal(journal, a, b), {})

GetByPositionCall(n) ==
    QueryStep("getByPosition", get_article_by_article_number(journal, n))

SetCursorCall(n) ==
    CursorStep("setCursor", go_to_article_number(journal, current_article_number, n))

\* validate_article_id called on its own: it returns the id or raises.
ValidateIdCall(a, check_in_journal) ==
    LET v == validate_article_id(journal, a, check_in_journal)
    IN  QueryStep("validateId",
                  [err |-> v.err,
                   val |-> IF v.err = "none" THEN IdValue(v.id) ELSE NoResult])

Add == \E article \in ArticleArgs : AddCall(article)

RemoveById == \E a \in Args : RemoveByIdCall(a)

RemoveByPosition == \E n \in Args : RemoveByPositionCall(n)

Clear == JournalStep("clear", clear_journal(journal), Ids)

GetAll == QueryStep("getAll", get_all_articles(journal))

GetById == \E a \in Args : GetByIdCall(a)

GetByPosition == \E n \in Args : GetByPositionCall(n)

GetCurrent == QueryStep("getCurrent", get_current_article(journal, current_article_number))

SetCursor == \E n \in Args : SetCursorCall(n)

ValidateId == \E a \in Args, check_in_journal \in BOOLEAN : ValidateIdCall(a, check_in_journal)

Rewind == CursorStep("rewind", rewind_journal(journal, current_article_number))

MoveToFront == \E a \in Args : MoveToFrontCall(a)

MoveToEnd == \E a \in Args : MoveToEndCall(a)

MoveToPosition == \E a \in Args, n \in Args : MoveToPositionCall(a, n)

Swap == \E a \in Args, b \in Args : SwapCall(a, b)

ReadCurrent ==
    \E db \in 0..1 :
        LET r == read_current_article(journal, current_article_number, Rebase(articles), db)
            afterFailure == lastOp = "readCurrent" /\ lastErr \in CallbackErrors
        IN  /\ ReadStep("readCurrent", r)
            /\ IF r.err # "none" THEN streak' = <<>> /\ streakStart' = 0
               ELSE IF streakStart = 0 \/ Len(streak) >= Len(journal)
                    THEN streakStart' = current_article_number /\ streak' = r.calls
               ELSE streakStart' = streakStart /\ streak' = streak \o r.calls
            /\ retry' = IF r.err \in CallbackErrors /\ ~afterFailure
                         THEN [id |-> journal[current_article_number],
                               cur |-> current_article_number,
                               journal |-> journal]
                         ELSE IF afterFailure /\ r.err \in CallbackErrors \cup {"none"}
                         THEN retry
                         ELSE NoRetry

ReadEntireJournal ==
    \E db \in 0..Len(journal) :
        /\ ReadStep("readEntireJournal",
                    read_entire_journal(journal, current_article_number, Rebase(articles), db))
        /\ NoStreak

ReadRestOfJournal ==
    \E db \in 0..Len(journal) :
        /\ ReadStep("readRestOfJournal",
                    read_rest_of_journal(journal, current_article_number, Rebase(articles), db))
        /\ NoStreak

CreateArticle ==
    \E i \in Ids : CatalogStep("create_article", create_article(Rebase(articles), i))

DeleteArticle ==
    \E i \in Ids : CatalogStep("delete_article", delete_article(Rebase(articles), i))

Next ==
    \/ Add
    \/ RemoveById
    \/ RemoveByPosition
    \/ Clear
    \/ GetAll
    \/ GetById
    \/ GetByPosition
    \/ GetCurrent
    \/ SetCursor
    \/ Rewind
    \/ MoveToFront
    \/ MoveToEnd
    \/ MoveToPosition
    \/ Swap
    \/ ReadCurrent
    \/ ReadEntireJournal
    \/ ReadRestOfJournal
    \/ ValidateId

Spec == Init /\ [][Next]_vars

\* The journal over a catalog that starts empty and changes: articles are
\* created and soft-deleted between the calls that read them.
InitCatalog ==
    /\ journal = <<>>
    /\ current_article_number = 1
    /\ articles = [i \in Ids |-> NoRow]
    /\ lastOp = "init"
    /\ lastErr = "none"
    /\ result = NoResult
    /\ calls = <<>>
    /\ streak = <<>>
    /\ streakStart = 0
    /\ retry = NoRetry
    /\ addLog = <<>>
    /\ added = {}

NextCatalog ==
    \/ Add
    \/ ReadCurrent
    \/ ReadEntireJournal
    \/ CreateArticle
    \/ DeleteArticle

SpecCatalog == InitCatalog /\ [][NextCatalog]_vars

----------------------------------------------------------------------------
\* Properties.

\* The table t after one more read of each id of the sequence ids.
RECURSIVE CountAll(_, _)
CountAll(t, ids) ==
    IF ids = <<>> THEN t
    ELSE CountAll([t EXCEPT ![Head(ids)].read_count = @ + 1], Tail(ids))

\* C1: whenever the journal is non-empty, the cursor is a valid 1-based
\* index into it: 1 <= current_article_number <= len(journal).
C1_CursorInRange ==
    journal # <<>> =>
        1 <= current_article_number /\ current_article_number <= Len(journal)

\* C2: no two positions of the journal hold the same article id.
C2_UniqueIds ==
    \A a \in 1..Len(journal), b \in 1..Len(journal) : a # b => journal[a] # journal[b]

C2_Witness ==
    /\ lastOp = "add"
    /\ lastErr = "DuplicateId"
    /\ Len(journal) >= 2

\* C3: a call that raises a validation error (EmptyJournal, InvalidId,
\* InvalidPosition, NotFound, DuplicateId, SelfSwap, InvalidArgument) leaves
\* the journal and the cursor as they were before the call.
C3_ValidationFailureLeavesState ==
    [][lastErr' \in ValidationErrors =>
          journal' = journal /\ current_article_number' = current_article_number]_vars

\* moveToPosition with a present id and an out-of-range target has failed.
C3_Witness ==
    /\ lastOp = "moveToPosition"
    /\ lastErr = "InvalidPosition"
    /\ Len(journal) >= 2

\* C4: a successful read_current_article on a journal of length N with cursor
\* k calls update_read_count exactly once, with the id at position k, records
\* one read of it, and sets the cursor to k + 1 when k < N and to 1 when
\* k = N; the journal is unchanged.
C4_ReadCurrentAdvances ==
    [][(lastOp' = "readCurrent" /\ lastErr' = "none") =>
          LET N == Len(journal)
              k == current_article_number
          IN  /\ 1 <= k /\ k <= N
              /\ calls' = <<journal[k]>>
              /\ articles' = CountAll(Rebase(articles), <<journal[k]>>)
              /\ current_article_number' = (IF k < N THEN k + 1 ELSE 1)
              /\ journal' = journal]_vars

\* The last article of a journal of two or more has been read: the cursor wrapped.
C4_Witness ==
    /\ lastOp = "readCurrent"
    /\ lastErr = "none"
    /\ Len(journal) >= 2
    /\ calls = <<journal[Len(journal)]>>
    /\ current_article_number = 1

\* C5: when update_read_count fails in read_current_article, the error
\* reaches the caller, the cursor and the journal are as before the call and
\* no read is recorded; the calls that follow immediately target the same
\* article, and the one that succeeds records exactly one read, of that
\* article. retry holds the cursor, the journal and the target found by the
\* first failed call.
C5_RetryAfterCallbackFailure ==
    (lastOp = "readCurrent" /\ retry # NoRetry) =>
        /\ lastErr \in CallbackErrors \cup {"none"}
        /\ journal = retry.journal
        /\ calls = <<retry.id>>
        /\ lastErr \in CallbackErrors =>
              /\ current_article_number = retry.cur
              /\ articles = Rebase(articles)
        /\ lastErr = "none" => articles = CountAll(Rebase(articles), <<retry.id>>)

\* A retry has succeeded after a failed call.
C5_Witness ==
    /\ lastOp = "readCurrent"
    /\ lastErr = "none"
    /\ retry # NoRetry
    /\ Len(journal) >= 2

\* C6: a read_entire_journal that succeeds on a journal of length N calls
\* update_read_count N times, once per article in position order, records
\* those reads, and ends with the cursor at 1 and the journal unchanged,
\* whatever the cursor was before.
C6_ReadEntireJournal ==
    [][(lastOp' = "readEntireJournal" /\ lastErr' = "none") =>
          /\ journal # <<>>
          /\ calls' = journal
          /\ articles' = CountAll(Rebase(articles), journal)
          /\ current_article_number' = 1
          /\ journal' = journal]_vars

C6_Witness ==
    /\ lastOp = "readEntireJournal"
    /\ lastErr = "none"
    /\ Len(journal) = MaxId
    /\ calls = journal

\* C7: a read_rest_of_journal that succeeds on a non-empty journal of length N
\* with cursor c calls update_read_count N - c + 1 times, for positions c..N in
\* order, and ends with the cursor at 1.
C7_ReadRestOfJournal ==
    [][(lastOp' = "readRestOfJournal" /\ lastErr' = "none") =>
          LET N == Len(journal)
              c == current_article_number
          IN  /\ Len(calls') = N - c + 1
              /\ calls' = SubSeq(journal, c, N)
              /\ current_article_number' = 1]_vars

\* C8: when update_read_count fails at the j-th iteration of
\* read_entire_journal or read_rest_of_journal, it was called for the j
\* articles from the starting position on and no more, the error is raised,
\* the cursor is at the article whose call failed, and the reads of the j - 1
\* articles before it stay recorded.
C8_LoopStopsAtFailure ==
    [][(lastOp' \in {"readEntireJournal", "readRestOfJournal"}
            /\ lastErr' \in CallbackErrors) =>
          LET start == IF lastOp' = "readEntireJournal" THEN 1 ELSE current_article_number
              n == Len(calls')
          IN  /\ n >= 1
              /\ start + n - 1 <= Len(journal)
              /\ calls' = SubSeq(journal, start, start + n - 1)
              /\ current_article_number' = start + n - 1
              /\ articles' = CountAll(Rebase(articles), SubSeq(calls', 1, n - 1))
              /\ journal' = journal]_vars

\* read_entire_journal failed at its second call, after a recorded first read.
C8_Witness ==
    /\ lastOp = "readEntireJournal"
    /\ lastErr \in CallbackErrors
    /\ Len(journal) = MaxId
    /\ Len(calls) = 2
    /\ current_article_number = 2
    /\ articles[journal[1]].read_count = 1
    /\ articles[journal[2]].read_count = 0

\* C9: len(journal) consecutive successful read_current_article calls that
\* began with the cursor at 1 have called update_read_count for every article
\* once, in position order, and the cursor is back at 1.
C9_FullCycle ==
    (lastOp = "readCurrent" /\ lastErr = "none" /\ streakStart = 1
        /\ Len(streak) = Len(journal)) =>
        /\ streak = journal
        /\ current_article_number = 1

C9_Witness ==
    /\ lastOp = "readCurrent"
    /\ lastErr = "none"
    /\ streakStart = 1
    /\ Len(journal) = MaxId
    /\ Len(streak) = Len(journal)

\* C10: while articles have only been added since the journal was last empty,
\* the journal holds exactly the added articles in the order of the calls.
C10_AddOrder == addLog # Tainted => journal = addLog

\* Three articles added in an order that is not the order of their ids.
C10_Witness ==
    /\ lastOp = "add"
    /\ lastErr = "none"
    /\ addLog # Tainted
    /\ Len(addLog) = 3
    /\ addLog[1] > addLog[2]

\* The sequence j without its position k, and the position of id in j.
Without(j, k) == SubSeq(j, 1, k - 1) \o SubSeq(j, k + 1, Len(j))
PosOf(j, id) == CHOOSE k \in 1..Len(j) : j[k] = id

\* C11: add of an article whose id was passed to an earlier successful add,
\* and to no successful removal since, raises DuplicateId and leaves the
\* journal and the cursor unchanged, whatever other ids were removed in between.
C11_DuplicateAddRejected ==
    [][lastOp' = "add" =>
          \A i \in added :
              AddCall([tag |-> "article", id |-> i]) =>
                  /\ lastErr' = "DuplicateId"
                  /\ journal' = journal
                  /\ current_article_number' = current_article_number]_vars

\* A duplicate add was rejected after removals left a single article.
C11_Witness ==
    /\ lastOp = "add"
    /\ lastErr = "DuplicateId"
    /\ addLog = Tainted
    /\ Len(journal) = 1
    /\ added = {journal[1]}

\* C12: after a successful remove_article_by_article_id(id) no article of the
\* journal has that id, get_article_by_article_id(id) does not return it, the
\* length is one less, and the other articles are in the same relative order.
C12_RemoveById ==
    [][(lastOp' = "removeById" /\ lastErr' = "none") =>
          \A a \in Args :
              RemoveByIdCall(a) =>
                  /\ a.n \in JournalIds(journal)
                  /\ a.n \notin JournalIds(journal')
                  /\ get_article_by_article_id(journal', a).val # OneArticle(a.n)
                  /\ Len(journal') = Len(journal) - 1
                  /\ journal' = Without(journal, PosOf(journal, a.n))]_vars

\* An article was removed by id from between two others.
C12_Witness ==
    /\ lastOp = "removeById"
    /\ lastErr = "none"
    /\ Len(journal) = 2
    /\ added = JournalIds(journal)
    /\ addLog = Tainted

\* C13: a successful remove_article_by_article_number(p) removes the article
\* at position p: the articles before p keep their positions, those after p
\* move one position left, and the length is one less.
C13_RemoveByPosition ==
    [][(lastOp' = "removeByPosition" /\ lastErr' = "none") =>
          \A n \in Args :
              RemoveByPositionCall(n) =>
                  /\ 1 <= n.n /\ n.n <= Len(journal)
                  /\ Len(journal') = Len(journal) - 1
                  /\ \A k \in 1..(n.n - 1) : journal'[k] = journal[k]
                  /\ \A k \in n.n..Len(journal') : journal'[k] = journal[k + 1]
                  /\ added' = added \ {journal[n.n]}]_vars

C13_Witness ==
    /\ lastOp = "removeByPosition"
    /\ lastErr = "none"
    /\ Len(journal) = 2
    /\ addLog = Tainted

\* C14: after a successful move_article_to_article_number(id, p) the article
\* with that id is at position p, whether it moved earlier or later, the
\* length is unchanged and the other articles keep their relative order.
C14_MoveToPosition ==
    [][(lastOp' = "moveToPosition" /\ lastErr' = "none") =>
          \A a \in Args, n \in Args :
              MoveToPositionCall(a, n) =>
                  /\ a.n \in JournalIds(journal)
                  /\ 1 <= n.n /\ n.n <= Len(journal)
                  /\ Len(journal') = Len(journal)
                  /\ journal'[n.n] = a.n
                  /\ Without(journal', n.n) = Without(journal, PosOf(journal, a.n))]_vars

\* An article of three was moved to another position.
C14_Witness ==
    /\ lastOp = "moveToPosition"
    /\ lastErr = "none"
    /\ Len(journal) = 3
    /\ addLog = Tainted

\* C15: after a successful move_article_to_beginning(id) the article at
\* position 1 has that id, get_article_by_article_number(1) returns it, and
\* the other articles keep their relative order.
C15_MoveToFront ==
    [][(lastOp' = "moveToFront" /\ lastErr' = "none") =>
          \A a \in Args :
              MoveToFrontCall(a) =>
                  /\ a.n \in JournalIds(journal)
                  /\ journal'[1] = a.n
                  /\ get_article_by_article_number(journal', [tag |-> "int", n |-> 1]).val
                         = OneArticle(a.n)
                  /\ Len(journal') = Len(journal)
                  /\ Without(journal', 1) = Without(journal, PosOf(journal, a.n))]_vars

\* An article of three was moved to the front from another position.
C15_Witness ==
    /\ lastOp = "moveToFront"
    /\ lastErr = "none"
    /\ Len(journal) = 3
    /\ addLog = Tainted

\* C16: after a successful move_article_to_end(id) the article with that id
\* is at the last position, the length is unchanged and the other articles
\* keep their relative order.
C16_MoveToEnd ==
    [][(lastOp' = "moveToEnd" /\ lastErr' = "none") =>
          \A a \in Args :
              MoveToEndCall(a) =>
                  /\ a.n \in JournalIds(journal)
                  /\ Len(journal') = Len(journal)
                  /\ journal'[Len(journal')] = a.n
                  /\ Without(journal', Len(journal'))
                         = Without(journal, PosOf(journal, a.n))]_vars

\* An article of three was moved to the end from another position.
C16_Witness ==
    /\ lastOp = "moveToEnd"
    /\ lastErr = "none"
    /\ Len(journal) = 3
    /\ addLog = Tainted

\* C17: a successful swap_articles_in_journal(id1, id2) of two distinct ids
\* of the journal exchanges the positions of the two articles and leaves
\* every other article at its position; length and cursor are unchanged.
C17_Swap ==
    [][(lastOp' = "swap" /\ lastErr' = "none") =>
          \A a \in Args, b \in Args :
              SwapCall(a, b) =>
                  /\ a.n # b.n
                  /\ {a.n, b.n} \subseteq JournalIds(journal)
                  /\ Len(journal') = Len(journal)
                  /\ current_article_number' = current_article_number
                  /\ journal'[PosOf(journal, a.n)] = b.n
                  /\ journal'[PosOf(journal, b.n)] = a.n
                  /\ \A k \in 1..Len(journal) :
                         journal[k] \notin {a.n, b.n} => journal'[k] = journal[k]]_vars

\* Two of three articles were swapped while the cursor was on the second.
C17_Witness ==
    /\ lastOp = "swap"
    /\ lastErr = "none"
    /\ Len(journal) = 3
    /\ current_article_number = 2

\* C18: for two distinct ids a, b of the journal, a second
\* swap_articles_in_journal(a, b) after a successful one restores the
\* original order, and swap(b, a) has the same effect as swap(a, b).
C18_SwapInvolution ==
    [][(lastOp' = "swap" /\ lastErr' = "none") =>
          \A a \in Args, b \in Args :
              SwapCall(a, b) =>
                  /\ swap_articles_in_journal(journal', a, b)
                         = [err |-> "none", journal |-> journal]
                  /\ swap_articles_in_journal(journal, b, a)
                         = [err |-> "none", journal |-> journal']]_vars

\* Two articles were swapped and the order of the journal changed.
C18_Witness ==
    /\ lastOp = "swap"
    /\ lastErr = "none"
    /\ Len(journal) >= 2
    /\ addLog = Tainted
    /\ added = JournalIds(journal)

\* C19: swap_articles_in_journal(id, id) raises SelfSwap and leaves the
\* journal unchanged when id is in the journal; when the journal is not empty
\* and id is not in it, the call raises NotFound for a non-negative id, and
\* never SelfSwap.
C19_SelfSwap ==
    [][lastOp' = "swap" =>
          \A a \in Args :
              SwapCall(a, a) =>
                  /\ (a.tag = "int" /\ a.n \in JournalIds(journal)) =>
                         (lastErr' = "SelfSwap" /\ journal' = journal)
                  /\ (journal # <<>> /\ ~(a.tag = "int" /\ a.n \in JournalIds(journal))) =>
                         /\ lastErr' # "SelfSwap"
                         /\ (a.tag = "int" /\ a.n >= 0) => lastErr' = "NotFound"
                         /\ journal' = journal]_vars

\* An article of the journal was swapped with itself.
C19_Witness ==
    /\ lastOp = "swap"
    /\ lastErr = "SelfSwap"
    /\ journal # <<>>

\* C20, as stated: get_article_by_article_id(id) on a non-empty journal, with
\* a non-negative id no article of the journal has, returns None without an
\* error.
C20_AbsentIdReturnsNone ==
    [][lastOp' = "getById" =>
          \A a \in Args :
              (/\ GetByIdCall(a)
               /\ journal # <<>>
               /\ a.tag = "int" /\ a.n >= 0
               /\ a.n \notin JournalIds(journal)) =>
                  (lastErr' = "none" /\ result' = None)]_vars

\* C20, amended: get_article_by_article_id(id) on a non-empty journal, with a
\* non-negative id no article of the journal has, raises NotFound, returns
\* nothing and leaves the journal unchanged; no call returns None.
C20_AbsentIdRaisesNotFound ==
    [][lastOp' = "getById" =>
          \A a \in Args :
              GetByIdCall(a) =>
                  /\ result' # None
                  /\ (/\ journal # <<>>
                      /\ a.tag = "int" /\ a.n >= 0
                      /\ a.n \notin JournalIds(journal)) =>
                         /\ lastErr' = "NotFound"
                         /\ result' = NoResult
                         /\ journal' = journal]_vars

\* An absent id was looked up in a journal of two articles.
C20_Witness ==
    /\ lastOp = "getById"
    /\ lastErr = "NotFound"
    /\ Len(journal) = 2

\* The arguments that are not a positive integer.
NonPositive == {a \in Args : ~(a.tag = "int" /\ a.n >= 1)}

\* The names of the calls that take an id and validate it against the journal.
IdOps == {"removeById", "getById", "moveToFront", "moveToEnd", "moveToPosition", "swap"}

\* The call named op with a as an id.
IdCall(op, a) ==
    \/ op = "removeById" /\ RemoveByIdCall(a)
    \/ op = "getById" /\ GetByIdCall(a)
    \/ op = "moveToFront" /\ MoveToFrontCall(a)
    \/ op = "moveToEnd" /\ MoveToEndCall(a)
    \/ op = "moveToPosition" /\ \E n \in Args : MoveToPositionCall(a, n)
    \/ op = "swap" /\ \E b \in Args : SwapCall(a, b)
    \/ op = "swap" /\ \E k \in 1..Len(journal) : SwapCall([tag |-> "int", n |-> journal[k]], a)

\* C21, as stated: validate_article_id, with or without the existence check,
\* and every call that takes an id on a non-empty journal raise InvalidId for
\* an id that is not a positive integer, the id 0 included.
C21_NonPositiveIdIsInvalid ==
    [][\A a \in NonPositive :
          /\ lastOp' = "validateId" =>
                 \A c \in BOOLEAN : lastErr' = "InvalidId" \/ ~ValidateIdCall(a, c)
          /\ (journal # <<>> /\ lastOp' \in IdOps) =>
                 (lastErr' = "InvalidId" \/ ~IdCall(lastOp', a))]_vars

\* What the code raises for an id that is not a positive integer.
ErrorOfNonPositive(a, check_in_journal) ==
    IF a.tag = "int" /\ a.n = 0
    THEN (IF check_in_journal THEN "NotFound" ELSE "none")
    ELSE "InvalidId"

\* C21, amended: a negative or non-integer id is InvalidId everywhere; the id
\* 0 passes the format check: validate_article_id returns it when the
\* existence check is off and raises NotFound when it is on, and every call
\* that takes an id on a non-empty journal raises NotFound for it and leaves
\* the journal as it is. Stated of every call that can be made in a state.
C21_ZeroIdPassesFormatCheck ==
    \A a \in NonPositive :
        LET e == ErrorOfNonPositive(a, TRUE)
            same == [err |-> e, journal |-> journal]
        IN  /\ \A c \in BOOLEAN :
                   LET v == validate_article_id(journal, a, c)
                   IN  /\ v.err = ErrorOfNonPositive(a, c)
                       /\ v.err = "none" => v.id = 0
            /\ journal # <<>> =>
                   /\ remove_article_by_article_id(journal, a) = same
                   /\ get_article_by_article_id(journal, a) = [err |-> e, val |-> NoResult]
                   /\ move_article_to_beginning(journal, a) = same
                   /\ move_article_to_end(journal, a) = same
                   /\ \A n \in Args : move_article_to_article_number(journal, a, n) = same
                   /\ \A b \in Args : swap_articles_in_journal(journal, a, b) = same
                   /\ \A k \in 1..Len(journal) :
                          swap_articles_in_journal(journal, [tag |-> "int", n |-> journal[k]], a)
                              = same

\* validate_article_id returned the id 0 on a non-empty journal.
C21_Witness ==
    /\ lastOp = "validateId"
    /\ lastErr = "none"
    /\ result = IdValue(0)
    /\ journal # <<>>

\* The calls that start with check_if_empty.
EmptyCheckedOps ==
    {"removeById", "removeByPosition", "getAll", "getByPosition", "getById",
     "getCurrent", "setCursor", "moveToFront", "moveToEnd", "moveToPosition",
     "swap", "readCurrent", "readEntireJournal", "readRestOfJournal", "rewind"}

\* C22: on an empty journal every read, remove, reorder and cursor call
\* raises EmptyJournal whatever its arguments, calls update_read_count for no
\* article, increments no read count and leaves journal and cursor unchanged.
C22_EmptyJournalRejected ==
    [][(journal = <<>> /\ lastOp' \in EmptyCheckedOps) =>
          /\ lastErr' = "EmptyJournal"
          /\ calls' = <<>>
          /\ result' = NoResult
          /\ articles' = Rebase(articles)
          /\ journal' = <<>>
          /\ current_article_number' = current_article_number]_vars

\* read_entire_journal was called on a journal emptied with the cursor at 2.
C22_Witness ==
    /\ lastOp = "readEntireJournal"
    /\ lastErr = "EmptyJournal"
    /\ journal = <<>>
    /\ current_article_number = 2

\* What a call that takes the position n raises on the journal of the state
\* when nothing else is wrong with the call.
ErrorOfPosition(n) ==
    IF n.tag = "int" /\ n.n >= 1 /\ n.n <= Len(journal) THEN "none" ELSE "InvalidPosition"

\* C23: on a non-empty journal remove_article_by_article_number(p),
\* get_article_by_article_number(p), go_to_article_number(p) and
\* move_article_to_article_number(id, p) with an id of the journal raise
\* InvalidPosition exactly when p is not an integer of 1..length, and
\* otherwise succeed. Stated of every call that can be made in a state.
C23_PositionClassification ==
    journal # <<>> =>
        \A n \in Args :
            LET e == ErrorOfPosition(n)
            IN  /\ remove_article_by_article_number(journal, n).err = e
                /\ get_article_by_article_number(journal, n).err = e
                /\ go_to_article_number(journal, current_article_number, n).err = e
                /\ \A k \in 1..Len(journal) :
                       move_article_to_article_number(
                           journal, [tag |-> "int", n |-> journal[k]], n).err = e

\* go_to_article_number was refused the position length + 1.
C23_Witness ==
    /\ lastOp = "setCursor"
    /\ lastErr = "InvalidPosition"
    /\ Len(journal) = 2
    /\ current_article_number = 2

\* C24: clear_journal never raises: from any state, the empty journal
\* included, it leaves the journal empty and the cursor as it was.
C24_ClearNeverFails ==
    [][/\ clear_journal(journal) = [err |-> "none", journal |-> <<>>]
       /\ lastOp' = "clear" =>
              /\ lastErr' = "none"
              /\ journal' = <<>>
              /\ current_article_number' = current_article_number]_vars

\* The journal was cleared with the cursor at 3.
C24_Witness ==
    /\ lastOp = "clear"
    /\ lastErr = "none"
    /\ journal = <<>>
    /\ current_article_number = 3

\* C25: after get_current_article on a non-empty journal the call has
\* succeeded and returned the article at position current_article_number;
\* on an empty journal it has raised EmptyJournal.
C25_GetCurrentSucceeds ==
    lastOp = "getCurrent" =>
        IF journal = <<>> THEN lastErr = "EmptyJournal"
        ELSE /\ lastErr = "none"
             /\ result = OneArticle(journal[current_article_number])

\* C26: on a non-empty journal go_to_article_number(p) with p in 1..length
\* sets the cursor to p, and rewind_journal sets it to 1 whatever it was;
\* neither changes the journal.
C26_SetCursorAndRewind ==
    [][journal # <<>> =>
          /\ lastOp' = "setCursor" =>
                 \A n \in Args :
                     (n.tag = "int" /\ n.n >= 1 /\ n.n <= Len(journal) /\ SetCursorCall(n)) =>
                         /\ lastErr' = "none"
                         /\ current_article_number' = n.n
                         /\ journal' = journal
          /\ lastOp' = "rewind" =>
                 /\ lastErr' = "none"
                 /\ current_article_number' = 1
                 /\ journal' = journal]_vars

\* rewind_journal has put the cursor on the first of two articles.
C26_Witness ==
    /\ lastOp = "rewind"
    /\ lastErr = "none"
    /\ current_article_number = 1
    /\ Len(journal) = 2

\* What update_read_count raises for the row of an article when the database
\* itself does not fail.
ErrorOfRow(row) ==
    IF ~row.exists THEN "ArticleNotFound" ELSE IF row.deleted THEN "ArticleDeleted" ELSE "none"

\* C27: update_read_count(id) raises ArticleNotFound when the table has no
\* row for the id and ArticleDeleted when the row is marked deleted, and
\* increments no read count then; for a row that is there and not deleted it
\* increments the read count of that row by exactly one and changes nothing
\* else. A read_current_article with the cursor on an article ends with the
\* error and the table of that one call.
C27_UpdateReadCount ==
    [][/\ \A i \in Ids :
              LET t == Rebase(articles)
                  u == update_read_count(t, i, FALSE)
              IN  /\ u.err = ErrorOfRow(articles[i])
                  /\ u.err # "none" => u.articles = t
                  /\ u.err = "none" => u.articles = [t EXCEPT ![i].read_count = 1]
       /\ (/\ lastOp' = "readCurrent"
           /\ journal # <<>>
           /\ current_article_number <= Len(journal)) =>
              LET id == journal[current_article_number]
                  e == ErrorOfRow(articles[id])
              IN  /\ calls' = <<id>>
                  /\ lastErr' \in {e, "DatabaseError"}
                  /\ lastErr' # "none" =>
                         /\ articles' = Rebase(articles)
                         /\ current_article_number' = current_article_number
                  /\ lastErr' = "none" =>
                         articles' = [Rebase(articles) EXCEPT ![id].read_count = 1]]_vars

\* read_current_article stopped at an article marked deleted.
C27_Witness ==
    /\ lastOp = "readCurrent"
    /\ lastErr = "ArticleDeleted"
    /\ calls # <<>>
    /\ articles[calls[1]].deleted
    /\ articles[calls[1]].read_count = 0

\* C28: add, the removals, clear_journal, the moves, the swap and the get
\* functions leave current_article_number as it was, whether they succeed or
\* raise: only go_to_article_number, rewind_journal and the three read
\* functions change it.
C28_CursorFrame ==
    [][/\ lastOp' \in {"add", "removeById", "removeByPosition", "clear", "moveToFront",
                       "moveToEnd", "moveToPosition", "swap", "getAll", "getById",
                       "getByPosition", "getCurrent"} =>
              current_article_number' = current_article_number
       /\ current_article_number' # current_article_number =>
              lastOp' \in {"setCursor", "rewind", "readCurrent", "readEntireJournal",
                           "readRestOfJournal"}]_vars

\* A removal by position left the cursor at 2 on a journal of one article.
C28_Witness ==
    /\ lastOp = "removeByPosition"
    /\ lastErr = "none"
    /\ current_article_number = 2
    /\ Len(journal) = 1

\* C29: the get functions, go_to_article_number, rewind_journal and the three
\* read functions leave the journal as it was, whether they succeed or raise:
\* only add, the removals, clear_journal, the moves and the swap change it.
C29_JournalFrame ==
    [][/\ lastOp' \in {"getAll", "getById", "getByPosition", "getCurrent", "setCursor",
                       "rewind", "readCurrent", "readEntireJournal",
                       "readRestOfJournal"} =>
              journal' = journal
       /\ journal' # journal =>
              lastOp' \in {"add", "removeById", "removeByPosition", "clear", "moveToFront",
                           "moveToEnd", "moveToPosition", "swap"}]_vars

\* read_rest_of_journal read two of three articles that are still in the
\* order they were added in.
C29_Witness ==
    /\ lastOp = "readRestOfJournal"
    /\ lastErr = "none"
    /\ Len(calls) = 2
    /\ Len(journal) = 3
    /\ addLog = journal

\* C30: in every state reached from a new journal current_article_number is
\* at least 1, on an empty journal and after a failed update_read_count too.
C30_CursorAtLeastOne == current_article_number >= 1

\* A call on a journal emptied with the cursor at its last position.
C30_Witness ==
    /\ journal = <<>>
    /\ current_article_number = MaxId
    /\ lastOp = "rewind"
    /\ lastErr = "EmptyJournal"

====
